---- MODULE Spec2Model ----
(***************************************************************************)
(* State-machine model of the gRPC discovery tool's command handlers       *)
(* (src/src-tauri/src/main.rs): the five mutex-guarded slots of            *)
(* GrpcToolState, and the Tauri commands that read and write them.  Each   *)
(* command runs as an async task; one action is one run of a task between  *)
(* two suspension points (.await on a network operation or on a lock).     *)
(***************************************************************************)
EXTENDS Integers, Sequences, FiniteSets, TLC

\* ---------------------------------------------------------------- bounds
\* Number of tasks that may run commands concurrently.
NumTasks == 2
\* Total number of command invocations in one behaviour.
MaxCalls == 3
\* Only the last MaxPorts entries of COMMON_GRPC_PORTS may have a listener
\* on localhost; the other candidate ports refuse the connection.
MaxPorts == 2
\* The wall clock (seconds since the epoch) runs from 0 to MaxClock.
MaxClock == 1
\* Number of command invocations in one behaviour of FairSpec.
MaxFairCalls == 2

Tasks == 1 .. NumTasks
NoTask == 0

\* Option<T>: None is the empty sequence, Some(x) a one-element sequence.
None == << >>
Some(x) == << x >>

\* --------------------------------------------------------------- inputs
\* connect_grpc(host, port, use_tls): a candidate port of localhost, another
\* endpoint over TLS, and two hosts that are no valid URI authority.
ConnectInputs ==
    { << "localhost", 8002, FALSE >>, << "10.0.0.5", 1234, TRUE >>,
      << "bad host", 8002, TRUE >>, << "::1", 8002, FALSE >> }
\* health_check_service(host, port): a candidate port of localhost, a port
\* of localhost outside the candidate list, a candidate port of another
\* host, and a host that is no valid URI authority.
HealthInputs ==
    { << "localhost", 8002 >>, << "localhost", 1234 >>, << "10.0.0.5", 8002 >>,
      << "::1", 8002 >> }
\* Milliseconds a health check may spend in the waits that were answered.
Latencies == {0, 40}
\* service names a reflection server may list, in order
NameLists == { << >>, << "a.Svc" >>, << "a.Svc", "b.Svc" >> }

\* ------------------------------------------------------------ constants
COMMON_GRPC_PORTS ==
    << 9090, 8080, 50051, 50052, 50053, 8081, 8082, 8083, 8084, 8085,
       9091, 9092, 9093, 9094, 9095, 3000, 3001, 3002, 4000, 4001,
       5000, 5001, 5002, 6000, 6001, 7000, 7001, 8000, 8001, 8002 >>

\* The candidate ports that may have a listener.
Listening ==
    { COMMON_GRPC_PORTS[i] :
        i \in (Len(COMMON_GRPC_PORTS) - MaxPorts + 1) .. Len(COMMON_GRPC_PORTS) }

\* impl Default for GrpcConnection
GrpcConnection_default ==
    [host |-> "localhost", port |-> 9090, use_tls |-> FALSE, connected |-> FALSE]

\* ------------------------------------------------------ pure functions
\* format!("{}:{}", host, port)
endpoint_key(host, port) == host \o ":" \o ToString(port)

\* format!("https://{}:{}") / format!("http://{}:{}")
endpoint_uri(host, port, use_tls) ==
    (IF use_tls THEN "https://" ELSE "http://") \o endpoint_key(host, port)

\* Channel::from_shared(endpoint) parses the string as a URI.  The uris the
\* commands build differ in scheme, host and port; those of a host with a
\* space are rejected for the character, those of a bare IPv6 address for
\* the authority.  InvalidUris pairs each uri the inputs can build for such
\* a host with the parser's error.
InputPorts == { a[2] : a \in ConnectInputs } \cup { a[2] : a \in HealthInputs }
InvalidHosts == [h \in {"bad host", "::1"} |->
                    IF h = "::1" THEN "invalid authority" ELSE "invalid uri character"]
InvalidUris ==
    { << endpoint_uri(h, p, tls), InvalidHosts[h] >> :
        h \in DOMAIN InvalidHosts, p \in InputPorts, tls \in BOOLEAN }
from_shared_err(endpoint) ==
    IF \E e \in InvalidUris : e[1] = endpoint
    THEN Some((CHOOSE e \in InvalidUris : e[1] = endpoint)[2])
    ELSE None
from_shared(endpoint) == from_shared_err(endpoint) = None

\* The outcome of one network wait: completed, failed, or cut by its deadline.
Outcomes == {"ok", "err", "timeout"}
\* The outcomes of a wait on host:port: a candidate port of localhost that
\* has no listener refuses the TCP connection.
Closed == { COMMON_GRPC_PORTS[i] : i \in 1 .. Len(COMMON_GRPC_PORTS) } \ Listening
WaitOutcomes(host, port) ==
    IF host = "localhost" /\ port \in Closed THEN {"err"} ELSE Outcomes

\* The deadlines, in milliseconds, of the TCP probe, of channel.connect() and
\* of the reflection call of scan_port.
Deadlines == << 100, 500, 1000 >>

\* start_time.elapsed().as_millis() once scan_port has returned with the
\* outcomes tr: a wait cut by its deadline (it is the last one) lasted that
\* long, the waits that were answered took `answered` together.
elapsed(tr, answered) ==
    (IF tr[Len(tr)] = "timeout" THEN Deadlines[Len(tr)] ELSE 0) + answered

\* is_grpc_service: r is the outcomes of channel.connect() and of
\* server_reflection_info(), as far as the function got; none when
\* Channel::from_shared rejects the endpoint.
is_grpc_service(host, port, r) ==
    IF from_shared(endpoint_uri(host, port, FALSE))
    THEN (IF r[1] = "ok"
          THEN (IF r[2] = "ok" THEN TRUE ELSE FALSE)
          ELSE FALSE)
    ELSE FALSE

\* Mutant: an open socket is taken for a gRPC service.
scan_port_open_is_grpc(host, port, tr) == tr[1] = "ok"

\* scan_port: tr is the outcomes of the TCP probe followed by those of
\* is_grpc_service.
scan_port(host, port, tr) ==
    IF tr[1] = "ok" THEN is_grpc_service(host, port, Tail(tr)) ELSE FALSE

\* Whether the waits of tr are all that scan_port(host, port) performs: it
\* stops at the first wait that did not succeed, after the TCP probe when
\* the endpoint is no valid uri, and after the third wait.
scan_port_returned(host, port, tr) ==
    /\ Len(tr) > 0
    /\ \/ tr[Len(tr)] # "ok"
       \/ ~from_shared(endpoint_uri(host, port, FALSE))
       \/ Len(tr) = 3

ServiceMetadata(host, port, discovered_at, last_health_check) ==
    [host |-> host, port |-> port,
     discovered_at |-> discovered_at,
     last_health_check |-> last_health_check,
     health_status |-> "Healthy",
     response_time_ms |-> None]

\* Mutant: the scan stores a latency derived from the clock.
LocalhostService_with_latency(host, port, discovered_at, last_health_check) ==
    [host |-> host, port |-> port, is_grpc |-> TRUE, services |-> << >>,
     metadata |-> [ServiceMetadata(host, port, discovered_at, last_health_check)
                     EXCEPT !.response_time_ms = Some(last_health_check)]]

\* The record scan_localhost_services builds for a detected port; the two
\* timestamps are two calls of current_timestamp().
LocalhostService(host, port, discovered_at, last_health_check) ==
    [host |-> host, port |-> port, is_grpc |-> TRUE, services |-> << >>,
     metadata |-> ServiceMetadata(host, port, discovered_at, last_health_check)]

\* HashMap::insert
insert(m, k, v) == [x \in DOMAIN m \cup {k} |-> IF x = k THEN v ELSE m[x]]
EmptyMap == [x \in {} |-> None]

GrpcResponse(success, message, data) ==
    [success |-> success, message |-> message, data |-> data]

\* ---------------------------------------------------------------- state
VARIABLES
    connection,          \* GrpcToolState.connection
    services,            \* GrpcToolState.services
    client,              \* GrpcToolState.client
    localhost_services,  \* GrpcToolState.localhost_services
    connection_pool,     \* GrpcToolState.connection_pool
    lock,                \* holder of each of the five tokio mutexes
    clock,               \* SystemTime::now() in seconds
    nextChan,            \* identity of the next channel connect() returns
    calls,               \* commands invoked so far
    pc,                  \* each task's suspension point
    args,                \* each task's command arguments
    loc,                 \* each task's local variables
    alone,               \* history: no other command ran since this one began
    pre,                 \* history: the shared state when this command began
    out,                 \* the response returned by the last step, if any
    lastScan             \* history: ports found by an immediately preceding scan

shared == << connection, services, client, localhost_services, connection_pool >>
vars == << connection, services, client, localhost_services, connection_pool,
           lock, clock, nextChan, calls, pc, args, loc, alone, pre, out, lastScan >>

LockNames == {"connection", "services", "client", "localhost_services", "connection_pool"}

Snapshot ==
    [connection |-> connection, services |-> services, client |-> client,
     localhost_services |-> localhost_services, connection_pool |-> connection_pool]

NoOut == [cmd |-> "none"]
NoArgs == << >>
NoLoc == << >>

Idle(t) == pc[t] = "idle"
OthersIdle(t) == \A u \in Tasks \ {t} : Idle(u)
\* Idle tasks are interchangeable: a command runs in the lowest idle one.
LowestIdle(t) == Idle(t) /\ \A u \in Tasks : u < t => ~Idle(u)

Init ==
    /\ connection = GrpcConnection_default
    /\ services = << >>
    /\ client = None
    /\ localhost_services = EmptyMap
    /\ connection_pool = EmptyMap
    /\ lock = [l \in LockNames |-> NoTask]
    /\ clock = 0
    /\ nextChan = 1
    /\ calls = 0
    /\ pc = [t \in Tasks |-> "idle"]
    /\ args = [t \in Tasks |-> NoArgs]
    /\ loc = [t \in Tasks |-> NoLoc]
    /\ alone = [t \in Tasks |-> FALSE]
    /\ pre = [t \in Tasks |-> None]
    /\ out = NoOut
    /\ lastScan = None

\* ------------------------------------------------- invocation and return
\* Task t is invoked with command c: history variables only.
Invoke(t, c) ==
    /\ LowestIdle(t)
    /\ calls < MaxCalls
    /\ calls' = calls + 1
    /\ alone' = [u \in Tasks |-> IF u = t THEN OthersIdle(t) ELSE FALSE]
    /\ pre' = [u \in Tasks |-> IF u = t /\ OthersIdle(t) THEN Some(Snapshot) ELSE None]
    /\ lastScan' = IF c = "scan_localhost_services" /\ OthersIdle(t) THEN lastScan ELSE None

\* The response event of task t returning `resp` from command c.
\* `before` is the shared state the returning step started from.
Response(t, c, a, l, al, pr, resp) ==
    [cmd |-> c, task |-> t, args |-> a, loc |-> l, alone |-> al, pre |-> pr,
     before |-> Snapshot, resp |-> resp, prevScan |-> lastScan]

\* Task t, invoked earlier, returns resp; ls is the new value of lastScan.
Return(t, c, resp, ls) ==
    /\ out' = Response(t, c, args[t], loc[t], alone[t], pre[t], resp)
    /\ lastScan' = ls
    /\ pc' = [pc EXCEPT ![t] = "idle"]
    /\ args' = [args EXCEPT ![t] = NoArgs]
    /\ loc' = [loc EXCEPT ![t] = NoLoc]
    /\ alone' = [alone EXCEPT ![t] = FALSE]
    /\ pre' = [pre EXCEPT ![t] = None]
    /\ calls' = calls

\* Task t is invoked with command c and returns resp in the same step.
InvokeReturn(t, c, a, resp) ==
    /\ LowestIdle(t)
    /\ calls < MaxCalls
    /\ calls' = calls + 1
    /\ alone' = [u \in Tasks |-> FALSE]
    /\ pre' = [u \in Tasks |-> None]
    /\ lastScan' = None
    /\ out' = Response(t, c, a, NoLoc, OthersIdle(t),
                     IF OthersIdle(t) THEN Some(Snapshot) ELSE None, resp)
    /\ UNCHANGED << pc, args, loc >>

\* Task t moves on to suspension point p with locals l.
Goto(t, p, l) ==
    /\ pc' = [pc EXCEPT ![t] = p]
    /\ loc' = [loc EXCEPT ![t] = l]
    /\ out' = NoOut

Continue(t, p, l) ==
    /\ Goto(t, p, l)
    /\ UNCHANGED << args, alone, pre, calls, lastScan >>

Free(l) == lock[l] = NoTask

\* ---------------------------------------------------------- connect_grpc
\* Channel::from_shared(endpoint) is Err: the command returns at once.
connect_grpc_invalid(t, host, port, use_tls) ==
    /\ ~from_shared(endpoint_uri(host, port, use_tls))
    /\ InvokeReturn(t, "connect_grpc",
                    [host |-> host, port |-> port, use_tls |-> use_tls],
                    GrpcResponse(FALSE,
                        "Invalid endpoint: "
                            \o from_shared_err(endpoint_uri(host, port, use_tls))[1],
                        None))
    /\ UNCHANGED << shared, lock, clock, nextChan >>

\* Channel::from_shared(endpoint) is Ok: the task waits in channel.connect().
connect_grpc_begin(t, host, port, use_tls) ==
    /\ from_shared(endpoint_uri(host, port, use_tls))
    /\ Invoke(t, "connect_grpc")
    /\ Goto(t, "connect_await", [endpoint |-> endpoint_uri(host, port, use_tls)])
    /\ args' = [args EXCEPT ![t] = [host |-> host, port |-> port, use_tls |-> use_tls]]
    /\ UNCHANGED << shared, lock, clock, nextChan >>

\* Mutant: a failed connect marks the active connection as disconnected.
connect_grpc_err_disconnects(t) ==
    /\ pc[t] = "connect_await"
    /\ Return(t, "connect_grpc",
              GrpcResponse(FALSE, "Failed to connect to gRPC server: " \o "transport error", None),
              None)
    /\ connection' = [connection EXCEPT !.connected = FALSE]
    /\ UNCHANGED << services, client, localhost_services, connection_pool, lock, clock, nextChan >>

\* channel.connect() is Err(e).
connect_grpc_err(t) ==
    /\ pc[t] = "connect_await"
    /\ Return(t, "connect_grpc",
              GrpcResponse(FALSE, "Failed to connect to gRPC server: " \o "transport error", None),
              None)
    /\ UNCHANGED << shared, lock, clock, nextChan >>

\* channel.connect() is Ok(conn); *state.client.lock().await = Some(client).
connect_grpc_client(t) ==
    /\ pc[t] = "connect_await"
    /\ Free("client")
    /\ LET conn == [uri |-> loc[t].endpoint, id |-> nextChan]
       IN /\ client' = Some([channel |-> conn])
          /\ Continue(t, "connect_pool", [endpoint |-> loc[t].endpoint, conn |-> conn])
    /\ nextChan' = nextChan + 1
    /\ UNCHANGED << connection, services, localhost_services, connection_pool, lock, clock >>

\* Mutant: the pool keeps only the active connection's channel.
pool_insert_single(pool, key, conn) == insert(EmptyMap, key, conn)

\* state.connection_pool.lock().await.insert(pool_key, conn)
pool_insert(pool, key, conn) == insert(pool, key, conn)

\* Mutant: the pool guard is kept while the connection lock is requested.
connect_grpc_pool_keeps_guard(t) ==
    /\ pc[t] = "connect_pool"
    /\ Free("connection_pool")
    /\ connection_pool' = pool_insert(connection_pool,
                                      endpoint_key(args[t].host, args[t].port),
                                      loc[t].conn)
    /\ lock' = [lock EXCEPT !["connection_pool"] = t]
    /\ Continue(t, "connect_connection", loc[t])
    /\ UNCHANGED << connection, services, client, localhost_services, clock, nextChan >>

connect_grpc_pool(t) ==
    /\ pc[t] = "connect_pool"
    /\ Free("connection_pool")
    /\ connection_pool' = pool_insert(connection_pool,
                                      endpoint_key(args[t].host, args[t].port),
                                      loc[t].conn)
    /\ Continue(t, "connect_connection", loc[t])
    /\ UNCHANGED << connection, services, client, localhost_services, lock, clock, nextChan >>

\* let mut connection = state.connection.lock().await; the four fields are
\* written and the command returns.
connect_grpc_finish(t) ==
    /\ pc[t] = "connect_connection"
    /\ Free("connection")
    /\ connection' = [host |-> args[t].host, port |-> args[t].port,
                      use_tls |-> args[t].use_tls, connected |-> TRUE]
    /\ Return(t, "connect_grpc",
              GrpcResponse(TRUE, "Connected to gRPC server at " \o loc[t].endpoint,
                           Some([endpoint |-> loc[t].endpoint, tls |-> args[t].use_tls])),
              None)
    /\ UNCHANGED << services, client, localhost_services, connection_pool, lock, clock, nextChan >>

\* ------------------------------------------------------- disconnect_grpc
\* *state.client.lock().await = None
disconnect_grpc_client(t) ==
    /\ Invoke(t, "disconnect_grpc")
    /\ Free("client")
    /\ client' = None
    /\ Goto(t, "disconnect_connection", NoLoc)
    /\ UNCHANGED << args, connection, services, localhost_services, connection_pool,
                    lock, clock, nextChan >>

\* Mutant: disconnect resets the whole ActiveConnection to its defaults.
disconnected_reset(c) == GrpcConnection_default

\* connection.connected = false
disconnected(c) == [c EXCEPT !.connected = FALSE]

\* let mut connection = state.connection.lock().await: the guard lives until
\* the command returns.
disconnect_grpc_connection(t) ==
    /\ pc[t] = "disconnect_connection"
    /\ Free("connection")
    /\ lock' = [lock EXCEPT !["connection"] = t]
    /\ connection' = disconnected(connection)
    /\ Continue(t, "disconnect_services", NoLoc)
    /\ UNCHANGED << services, client, localhost_services, connection_pool, clock, nextChan >>

\* *state.services.lock().await = Vec::new()
disconnect_grpc_services(t) ==
    /\ pc[t] = "disconnect_services"
    /\ Free("services")
    /\ services' = << >>
    /\ Continue(t, "disconnect_pool", NoLoc)
    /\ UNCHANGED << connection, client, localhost_services, connection_pool, lock, clock, nextChan >>

\* Mutant: only the active connection's pool entry is evicted.
pool_clear_active(pool, c) ==
    [k \in DOMAIN pool \ {endpoint_key(c.host, c.port)} |-> pool[k]]

\* state.connection_pool.lock().await.clear()
pool_clear(pool, c) == EmptyMap

\* The pool is cleared, the connection guard is dropped, the command returns.
disconnect_grpc_pool(t) ==
    /\ pc[t] = "disconnect_pool"
    /\ Free("connection_pool")
    /\ connection_pool' = pool_clear(connection_pool, connection)
    /\ lock' = [lock EXCEPT !["connection"] = NoTask]
    /\ Return(t, "disconnect_grpc",
              GrpcResponse(TRUE, "Disconnected from gRPC server", None), None)
    /\ UNCHANGED << connection, services, client, localhost_services, clock, nextChan >>

\* ------------------------------------------------------------- snapshots
get_connection_status(t) ==
    /\ Free("connection")
    /\ InvokeReturn(t, "get_connection_status", NoArgs, connection)
    /\ UNCHANGED << shared, lock, clock, nextChan >>

get_services(t) ==
    /\ Free("services")
    /\ InvokeReturn(t, "get_services", NoArgs, services)
    /\ UNCHANGED << shared, lock, clock, nextChan >>

\* services.values().cloned().collect(): the records, in no particular order
get_localhost_services(t) ==
    /\ Free("localhost_services")
    /\ InvokeReturn(t, "get_localhost_services", NoArgs,
                    { localhost_services[k] : k \in DOMAIN localhost_services })
    /\ UNCHANGED << shared, lock, clock, nextChan >>

\* ------------------------------------------------ scan_localhost_services
\* loc.trace holds the outcomes of the waits of the port being scanned; when
\* scan_port has returned it is kept, with loc.idx moved on, until the first
\* wait of the next port.
TraceDone(l) ==
    l.idx > 1 /\ scan_port_returned("localhost", COMMON_GRPC_PORTS[l.idx - 1], l.trace)
NextTrace(l, o) == IF TraceDone(l) THEN << o >> ELSE Append(l.trace, o)

\* What a second call of current_timestamp() may return: the wall clock may
\* have moved to the next second since the first call.
LaterTimestamps == { c \in {clock, clock + 1} : c <= MaxClock }

scan_localhost_services_begin(t) ==
    /\ Invoke(t, "scan_localhost_services")
    /\ Goto(t, "scan_port", [idx |-> 1, trace |-> << >>,
                             discovered_services |-> EmptyMap,
                             scan_results |-> << >>])
    /\ UNCHANGED << args, shared, lock, clock, nextChan >>

\* Mutant: a wait that hits its deadline makes the scan probe the same port
\* again.
scan_localhost_services_port_retry(t) ==
    /\ pc[t] = "scan_port"
    /\ \/ /\ Continue(t, "scan_port", [loc[t] EXCEPT !.trace = << >>])
          /\ UNCHANGED clock
       \/ LET host == "localhost"
              port == COMMON_GRPC_PORTS[loc[t].idx]
              endpoint == endpoint_key(host, port)
              next == IF loc[t].idx = Len(COMMON_GRPC_PORTS) THEN "scan_store" ELSE "scan_port"
          IN \E o \in WaitOutcomes(host, port) \ {"timeout"} :
               LET tr == NextTrace(loc[t], o)
               IN IF ~scan_port_returned(host, port, tr)
                  THEN /\ Continue(t, "scan_port", [loc[t] EXCEPT !.trace = tr])
                       /\ UNCHANGED clock
                  ELSE IF scan_port(host, port, tr)
                  THEN \E later \in LaterTimestamps :
                         /\ clock' = later
                         /\ Continue(t, next,
                               [idx |-> loc[t].idx + 1,
                                trace |-> tr,
                                discovered_services |->
                                   insert(loc[t].discovered_services, endpoint,
                                          LocalhostService(host, port, clock, later)),
                                scan_results |->
                                   Append(loc[t].scan_results,
                                          [endpoint |-> endpoint, status |-> "grpc_detected",
                                           port |-> port])])
                  ELSE /\ Continue(t, next, [loc[t] EXCEPT !.idx = @ + 1, !.trace = tr])
                       /\ UNCHANGED clock
    /\ UNCHANGED << shared, lock, nextChan >>

\* One wait of scan_port(&host, port) for the port at loc.idx; when scan_port
\* returns, the loop body records the port or not and moves to the next one.
scan_localhost_services_port(t) ==
    /\ pc[t] = "scan_port"
    /\ LET host == "localhost"
           port == COMMON_GRPC_PORTS[loc[t].idx]
           endpoint == endpoint_key(host, port)
           next == IF loc[t].idx = Len(COMMON_GRPC_PORTS) THEN "scan_store" ELSE "scan_port"
       IN \E o \in WaitOutcomes(host, port) :
            LET tr == NextTrace(loc[t], o)
            IN IF ~scan_port_returned(host, port, tr)
               THEN /\ Continue(t, "scan_port", [loc[t] EXCEPT !.trace = tr])
                    /\ UNCHANGED clock
               ELSE IF scan_port(host, port, tr)
               THEN \E later \in LaterTimestamps :
                      /\ clock' = later
                      /\ Continue(t, next,
                            [idx |-> loc[t].idx + 1,
                             trace |-> tr,
                             discovered_services |->
                                insert(loc[t].discovered_services, endpoint,
                                       LocalhostService(host, port, clock, later)),
                             scan_results |->
                                Append(loc[t].scan_results,
                                       [endpoint |-> endpoint, status |-> "grpc_detected",
                                        port |-> port])])
               ELSE /\ Continue(t, next, [loc[t] EXCEPT !.idx = @ + 1, !.trace = tr])
                    /\ UNCHANGED clock
    /\ UNCHANGED << shared, lock, nextChan >>

\* Mutant: the scan merges what it found into the registry.
registry_merge(old, discovered_services) ==
    [k \in DOMAIN old \cup DOMAIN discovered_services |->
        IF k \in DOMAIN discovered_services THEN discovered_services[k] ELSE old[k]]

\* *state.localhost_services.lock().await = discovered_services.clone()
registry_store(old, discovered_services) == discovered_services

DetectedPorts(scan_results) == { scan_results[i].port : i \in 1 .. Len(scan_results) }

scan_localhost_services_store(t) ==
    /\ pc[t] = "scan_store"
    /\ Free("localhost_services")
    /\ localhost_services' = registry_store(localhost_services, loc[t].discovered_services)
    /\ Return(t, "scan_localhost_services",
              GrpcResponse(TRUE,
                  "Discovered " \o ToString(Cardinality(DOMAIN loc[t].discovered_services))
                      \o " gRPC services on localhost",
                  Some([services |-> loc[t].discovered_services,
                        scan_results |-> loc[t].scan_results,
                        ports_scanned |-> Len(COMMON_GRPC_PORTS),
                        grpc_services_found |-> Cardinality(DOMAIN loc[t].discovered_services)])),
              IF alone[t] THEN Some(DetectedPorts(loc[t].scan_results)) ELSE None)
    /\ UNCHANGED << connection, services, client, connection_pool, lock, clock, nextChan >>

\* --------------------------------------------------- health_check_service
health_check_service_begin(t, host, port) ==
    /\ Invoke(t, "health_check_service")
    /\ Goto(t, "health_port", [trace |-> << >>])
    /\ args' = [args EXCEPT ![t] = [host |-> host, port |-> port]]
    /\ UNCHANGED << shared, lock, clock, nextChan >>

\* One wait of scan_port(&host, port); when it returns, the elapsed time is
\* taken, before the registry lock is requested.
health_check_service_port(t) ==
    /\ pc[t] = "health_port"
    /\ \E o \in WaitOutcomes(args[t].host, args[t].port) :
         LET tr == Append(loc[t].trace, o)
         IN IF scan_port_returned(args[t].host, args[t].port, tr)
            THEN \E answered \in Latencies :
                    Continue(t, "health_store",
                             [trace |-> tr,
                              is_healthy |-> scan_port(args[t].host, args[t].port, tr),
                              response_time |-> elapsed(tr, answered)])
            ELSE Continue(t, "health_port", [trace |-> tr])
    /\ UNCHANGED << shared, lock, clock, nextChan >>

\* Mutant: a health check also restarts the record's discovery time.
health_metadata_rediscovered(m, is_healthy, response_time, now) ==
    [m EXCEPT !.discovered_at = now,
              !.last_health_check = now,
              !.health_status = IF is_healthy THEN "Healthy" ELSE "Unhealthy",
              !.response_time_ms = Some(response_time)]

\* service.metadata.{last_health_check, health_status, response_time_ms} = ...
health_metadata(m, is_healthy, response_time, now) ==
    [m EXCEPT !.last_health_check = now,
              !.health_status = IF is_healthy THEN "Healthy" ELSE "Unhealthy",
              !.response_time_ms = Some(response_time)]

\* Mutant: a health check of an unknown endpoint creates its record.
health_update_upsert(registry, host, port, is_healthy, response_time, now) ==
    insert(registry, endpoint_key(host, port),
           [host |-> host, port |-> port, is_grpc |-> is_healthy, services |-> << >>,
            metadata |-> health_metadata(ServiceMetadata(host, port, now, now),
                                         is_healthy, response_time, now)])

\* Mutant: the record is looked up by port alone.
health_update_by_port(registry, host, port, is_healthy, response_time, now) ==
    [k \in DOMAIN registry |->
        IF registry[k].port = port
        THEN [registry[k] EXCEPT !.metadata =
                 health_metadata(registry[k].metadata, is_healthy, response_time, now)]
        ELSE registry[k]]

\* if let Some(service) = services.get_mut(&endpoint) { ... }
health_update(registry, host, port, is_healthy, response_time, now) ==
    LET endpoint == endpoint_key(host, port)
    IN IF endpoint \in DOMAIN registry
       THEN [registry EXCEPT ![endpoint].metadata =
                health_metadata(registry[endpoint].metadata, is_healthy, response_time, now)]
       ELSE registry

health_check_service_store(t) ==
    /\ pc[t] = "health_store"
    /\ Free("localhost_services")
    /\ LET response_time == loc[t].response_time
       IN
         /\ localhost_services' =
                health_update(localhost_services, args[t].host, args[t].port,
                              loc[t].is_healthy, response_time, clock)
         /\ Return(t, "health_check_service",
                GrpcResponse(loc[t].is_healthy,
                    IF loc[t].is_healthy
                    THEN "Service at " \o endpoint_key(args[t].host, args[t].port)
                            \o " is healthy (" \o ToString(response_time) \o "ms)"
                    ELSE "Service at " \o endpoint_key(args[t].host, args[t].port)
                            \o " is unhealthy",
                    Some([host |-> args[t].host, port |-> args[t].port,
                          healthy |-> loc[t].is_healthy,
                          response_time_ms |-> response_time])),
                None)
    /\ UNCHANGED << connection, services, client, connection_pool, lock, clock, nextChan >>

\* ------------------------------------------------------ discover_services
\* Mutant: finding no client, the command also resets the ActiveConnection.
discover_services_not_connected_resets(t) ==
    /\ Free("client")
    /\ client = None
    /\ connection' = GrpcConnection_default
    /\ InvokeReturn(t, "discover_services", NoArgs,
                    GrpcResponse(FALSE, "Not connected to gRPC server", None))
    /\ UNCHANGED << services, client, localhost_services, connection_pool,
                    lock, clock, nextChan >>

\* The client slot is None: the else branch returns at once.
discover_services_not_connected(t) ==
    /\ Free("client")
    /\ client = None
    /\ InvokeReturn(t, "discover_services", NoArgs,
                    GrpcResponse(FALSE, "Not connected to gRPC server", None))
    /\ UNCHANGED << shared, lock, clock, nextChan >>

\* The client is cloned, the guard dropped, and the request sent into the
\* mpsc channel; the task waits in client.server_reflection_info().
\* Mutant: the client guard is not dropped before the reflection call.
discover_services_begin_keeps_guard(t) ==
    /\ Free("client")
    /\ client # None
    /\ Invoke(t, "discover_services")
    /\ Goto(t, "discover_open", [client |-> client[1]])
    /\ lock' = [lock EXCEPT !["client"] = t]
    /\ UNCHANGED << args, shared, clock, nextChan >>

discover_services_begin(t) ==
    /\ Free("client")
    /\ client # None
    /\ Invoke(t, "discover_services")
    /\ Goto(t, "discover_open", [client |-> client[1]])
    /\ UNCHANGED << args, shared, lock, clock, nextChan >>

\* server_reflection_info() is Err(e).
discover_services_open_err(t) ==
    /\ pc[t] = "discover_open"
    /\ Return(t, "discover_services",
              GrpcResponse(FALSE, "Failed to discover services: " \o "status: Unimplemented", None),
              None)
    /\ UNCHANGED << shared, lock, clock, nextChan >>

\* server_reflection_info() is Ok(response).
discover_services_open_ok(t) ==
    /\ pc[t] = "discover_open"
    /\ Continue(t, "discover_stream",
                [client |-> loc[t].client, services |-> << >>, pending |-> << >>,
                 list_response |-> None, skipped |-> FALSE])
    /\ UNCHANGED << shared, lock, clock, nextChan >>

\* One stream.message().await of the while-let loop.  loc.list_response is
\* the ListServicesResponse received, if any; loc.skipped records that a
\* message of another kind was passed over.
discover_services_message(t) ==
    /\ pc[t] = "discover_stream"
    /\ \/ \* Ok(Some(msg)) of another kind: the loop goes on
          Continue(t, "discover_stream", [loc[t] EXCEPT !.skipped = TRUE])
       \/ \* Ok(Some(ListServicesResponse)): the for loop, then break
          \E names \in NameLists :
             Continue(t, IF names = << >> THEN "discover_store" ELSE "discover_push",
                      [loc[t] EXCEPT !.pending = names, !.list_response = Some(names)])
       \/ \* Ok(None) or Err(status): the loop ends
          Continue(t, "discover_store", loc[t])
    /\ UNCHANGED << shared, lock, clock, nextChan >>

\* The two timestamps are two calls of current_timestamp().
GrpcService(name, host, port, discovered_at, last_health_check) ==
    [name |-> name, methods |-> << >>,
     metadata |-> ServiceMetadata(host, port, discovered_at, last_health_check)]

\* One iteration of `for service in list_response.service`: the connection
\* lock is taken, read and dropped.
discover_services_push(t) ==
    /\ pc[t] = "discover_push"
    /\ Free("connection")
    /\ \E later \in LaterTimestamps :
         /\ clock' = later
         /\ Continue(t, IF Len(loc[t].pending) = 1 THEN "discover_store" ELSE "discover_push",
                     [loc[t] EXCEPT
                         !.services = Append(@, GrpcService(Head(loc[t].pending),
                                                            connection.host, connection.port,
                                                            clock, later)),
                         !.pending = Tail(@)])
    /\ UNCHANGED << shared, lock, nextChan >>

\* Mutant: the discovered services are added to the list already held.
services_extend(old, discovered) == old \o discovered

\* *state.services.lock().await = services.clone()
services_store(old, discovered) == discovered

\* Mutant: the discovered names are also written into the registry record
\* of the active connection's endpoint.
discover_services_store_fills_registry(t) ==
    /\ pc[t] = "discover_store"
    /\ Free("services")
    /\ services' = services_store(services, loc[t].services)
    /\ localhost_services' =
          [k \in DOMAIN localhost_services |->
              IF k = endpoint_key(connection.host, connection.port)
              THEN [localhost_services[k] EXCEPT !.services = loc[t].services]
              ELSE localhost_services[k]]
    /\ Return(t, "discover_services",
              GrpcResponse(TRUE, "Discovered " \o ToString(Len(loc[t].services)) \o " services",
                           Some(loc[t].services)),
              None)
    /\ UNCHANGED << connection, client, connection_pool, lock, clock, nextChan >>

discover_services_store(t) ==
    /\ pc[t] = "discover_store"
    /\ Free("services")
    /\ services' = services_store(services, loc[t].services)
    /\ Return(t, "discover_services",
              GrpcResponse(TRUE, "Discovered " \o ToString(Len(loc[t].services)) \o " services",
                           Some(loc[t].services)),
              None)
    /\ UNCHANGED << connection, client, localhost_services, connection_pool, lock, clock, nextChan >>

\* ------------------------------------------------------------- the clock
\* current_timestamp() never goes back.
Tick ==
    /\ clock < MaxClock
    /\ clock' = clock + 1
    /\ out' = NoOut
    /\ UNCHANGED << shared, lock, nextChan, calls, pc, args, loc, alone, pre, lastScan >>

Next ==
    \/ \E t \in Tasks, a \in ConnectInputs : connect_grpc_invalid(t, a[1], a[2], a[3])
    \/ \E t \in Tasks, a \in ConnectInputs : connect_grpc_begin(t, a[1], a[2], a[3])
    \/ \E t \in Tasks : connect_grpc_err(t)
    \/ \E t \in Tasks : connect_grpc_client(t)
    \/ \E t \in Tasks : connect_grpc_pool(t)
    \/ \E t \in Tasks : connect_grpc_finish(t)
    \/ \E t \in Tasks : disconnect_grpc_client(t)
    \/ \E t \in Tasks : disconnect_grpc_connection(t)
    \/ \E t \in Tasks : disconnect_grpc_services(t)
    \/ \E t \in Tasks : disconnect_grpc_pool(t)
    \/ \E t \in Tasks : get_connection_status(t)
    \/ \E t \in Tasks : get_services(t)
    \/ \E t \in Tasks : get_localhost_services(t)
    \/ \E t \in Tasks : scan_localhost_services_begin(t)
    \/ \E t \in Tasks : scan_localhost_services_port(t)
    \/ \E t \in Tasks : scan_localhost_services_store(t)
    \/ \E t \in Tasks, a \in HealthInputs : health_check_service_begin(t, a[1], a[2])
    \/ \E t \in Tasks : health_check_service_port(t)
    \/ \E t \in Tasks : health_check_service_store(t)
    \/ \E t \in Tasks : discover_services_not_connected(t)
    \/ \E t \in Tasks : discover_services_begin(t)
    \/ \E t \in Tasks : discover_services_open_err(t)
    \/ \E t \in Tasks : discover_services_open_ok(t)
    \/ \E t \in Tasks : discover_services_message(t)
    \/ \E t \in Tasks : discover_services_push(t)
    \/ \E t \in Tasks : discover_services_store(t)
    \/ Tick

Spec == Init /\ [][Next]_vars

\* ---------------------------------------------------------- scheduling
\* The steps the runtime takes without waiting on the environment for an
\* unbounded time: a tokio Mutex is granted once it is free, and every wait
\* of scan_port is under a timeout.  channel.connect() in connect_grpc and
\* the reflection call and stream of discover_services have no deadline.
Poll(t) ==
    \/ connect_grpc_pool(t)
    \/ connect_grpc_finish(t)
    \/ disconnect_grpc_connection(t)
    \/ disconnect_grpc_services(t)
    \/ disconnect_grpc_pool(t)
    \/ scan_localhost_services_port(t)
    \/ scan_localhost_services_store(t)
    \/ health_check_service_port(t)
    \/ health_check_service_store(t)
    \/ discover_services_push(t)
    \/ discover_services_store(t)

\* The behaviours the liveness properties are checked on: those of at most
\* MaxFairCalls invocations (the first MaxCalls - MaxFairCalls of the budget
\* count as spent).
FairInit ==
    /\ connection = GrpcConnection_default
    /\ services = << >>
    /\ client = None
    /\ localhost_services = EmptyMap
    /\ connection_pool = EmptyMap
    /\ lock = [l \in LockNames |-> NoTask]
    /\ clock = 0
    /\ nextChan = 1
    /\ calls = MaxCalls - MaxFairCalls
    /\ pc = [t \in Tasks |-> "idle"]
    /\ args = [t \in Tasks |-> NoArgs]
    /\ loc = [t \in Tasks |-> NoLoc]
    /\ alone = [t \in Tasks |-> FALSE]
    /\ pre = [t \in Tasks |-> None]
    /\ out = NoOut
    /\ lastScan = None

FairSpec == FairInit /\ [][Next]_vars /\ \A t \in Tasks : WF_vars(Poll(t))

\* ================================================================ claims
Returned(c) == out.cmd = c
Range(m) == { m[k] : k \in DOMAIN m }
CandidatePorts == { COMMON_GRPC_PORTS[i] : i \in 1 .. Len(COMMON_GRPC_PORTS) }
CandidateKeys == { endpoint_key("localhost", p) : p \in CandidatePorts }
OutKey == endpoint_key(out.args.host, out.args.port)

\* C1: in every reachable state, connected = true implies that the
\* reflection-client slot is non-empty.
C1_ConnectedImpliesClient == connection.connected => client # None

\* C2: a connect_grpc that fails returns success=false with a non-empty
\* message and no data; the returning step leaves the five state slots as
\* they were, and when no other command ran they are as before the call.
C2_FailedConnectLeavesState ==
    (Returned("connect_grpc") /\ ~out.resp.success) =>
        /\ out.resp.message # ""
        /\ out.resp.data = None
        /\ Snapshot = out.before
        /\ (out.alone => Snapshot = out.pre[1])

\* C2 witness: a transport failure, running alone, while an earlier
\* connection is active.
C2_Witness ==
    /\ Returned("connect_grpc") /\ ~out.resp.success /\ out.alone
    /\ out.loc # NoLoc
    /\ connection.connected /\ client # None /\ DOMAIN connection_pool # {}

\* C3: after a disconnect_grpc that ran alone the client slot is empty,
\* connected is false, the services list and the pool are empty, and host,
\* port and use_tls are those of before the call.
C3_DisconnectClears ==
    (Returned("disconnect_grpc") /\ out.alone) =>
        /\ client = None
        /\ ~connection.connected
        /\ services = << >>
        /\ DOMAIN connection_pool = {}
        /\ connection.host = out.pre[1].connection.host
        /\ connection.port = out.pre[1].connection.port
        /\ connection.use_tls = out.pre[1].connection.use_tls

\* C3 witness: a disconnect after two connects, the pool holding two entries.
C3_Witness ==
    /\ Returned("disconnect_grpc") /\ out.alone
    /\ out.pre[1].connection.connected
    /\ out.pre[1].client # None
    /\ Cardinality(DOMAIN out.pre[1].connection_pool) >= 2

\* C4 as claimed: after any disconnect_grpc the ActiveConnection is the
\* default value (localhost, 9090, no TLS, not connected).
C4_DisconnectResetsToDefault ==
    Returned("disconnect_grpc") => connection = GrpcConnection_default

\* C4 as amended: after any disconnect_grpc connected is false, and when no
\* other command ran the ActiveConnection is the one of before the call
\* with only the connected flag changed.
C4_DisconnectKeepsEndpoint ==
    Returned("disconnect_grpc") =>
        /\ ~connection.connected
        /\ (out.alone =>
              connection = [out.pre[1].connection EXCEPT !.connected = FALSE])

\* C4 witness: a disconnect from a connected endpoint that is not the default.
C4_Witness ==
    /\ Returned("disconnect_grpc") /\ out.alone
    /\ out.pre[1].connection.connected
    /\ out.pre[1].connection.port # GrpcConnection_default.port
    /\ out.pre[1].connection.use_tls

\* C5: after a successful connect_grpc(h, p, tls) that ran alone the pool
\* is the pool of before with "h:p" mapped to the new channel (every other
\* entry kept), the client slot holds the client of that channel, and the
\* ActiveConnection is (h, p, tls, connected).
C5_ConnectInstalls ==
    (Returned("connect_grpc") /\ out.resp.success /\ out.alone) =>
        LET before == out.pre[1]
            conn == out.loc.conn
        IN /\ connection = [host |-> out.args.host, port |-> out.args.port,
                            use_tls |-> out.args.use_tls, connected |-> TRUE]
           /\ client = Some([channel |-> conn])
           /\ conn.uri = endpoint_uri(out.args.host, out.args.port, out.args.use_tls)
           /\ conn \notin Range(before.connection_pool)
           /\ before.client # client
           /\ DOMAIN connection_pool = DOMAIN before.connection_pool \cup {OutKey}
           /\ connection_pool[OutKey] = conn
           /\ \A k \in DOMAIN before.connection_pool \ {OutKey} :
                 connection_pool[k] = before.connection_pool[k]

\* C5 witness: a second connect, to another endpoint, with no disconnect
\* in between.
C5_Witness ==
    /\ Returned("connect_grpc") /\ out.resp.success /\ out.alone
    /\ out.pre[1].connection.connected
    /\ out.pre[1].client # None
    /\ \E k \in DOMAIN out.pre[1].connection_pool : k # OutKey

\* C6: when a scan returns, the registry's keys are exactly the endpoints
\* the scan reported as gRPC, and every record is fresh: Healthy, no latency.
C6_ScanIsSnapshot ==
    Returned("scan_localhost_services") =>
        LET results == out.resp.data[1].scan_results
        IN /\ DOMAIN localhost_services =
                 { results[i].endpoint : i \in 1 .. Len(results) }
           /\ DOMAIN localhost_services =
                 { endpoint_key("localhost", p) : p \in DetectedPorts(results) }
           /\ \A k \in DOMAIN localhost_services :
                 /\ localhost_services[k].metadata.health_status = "Healthy"
                 /\ localhost_services[k].metadata.response_time_ms = None

\* C6 witness: the scan drops an entry it did not detect again and replaces
\* one that a health check had marked Unhealthy.
C6_Witness ==
    /\ Returned("scan_localhost_services")
    /\ \E k \in DOMAIN out.before.localhost_services : k \notin DOMAIN localhost_services
    /\ \E k \in DOMAIN out.before.localhost_services \cap DOMAIN localhost_services :
          /\ out.before.localhost_services[k].metadata.health_status = "Unhealthy"
          /\ out.before.localhost_services[k].metadata.response_time_ms # None

\* C7: every registry key, and every endpoint a scan reports, is
\* "localhost:p" for a port p of the candidate list.
C7_RegistryKeysAreCandidates ==
    /\ \A k \in DOMAIN localhost_services :
          /\ k \in CandidateKeys
          /\ localhost_services[k].host = "localhost"
          /\ localhost_services[k].port \in CandidatePorts
          /\ k = endpoint_key(localhost_services[k].host, localhost_services[k].port)
    /\ Returned("scan_localhost_services") =>
          LET data == out.resp.data[1]
          IN /\ DOMAIN data.services \subseteq CandidateKeys
             /\ \A i \in 1 .. Len(data.scan_results) :
                   /\ data.scan_results[i].endpoint \in CandidateKeys
                   /\ data.scan_results[i].port \in CandidatePorts

\* C7 witness: a health check finds a gRPC service on a port outside the
\* list while the registry holds scanned entries.
C7_Witness ==
    /\ Returned("health_check_service")
    /\ out.args.port \notin CandidatePorts
    /\ out.resp.data[1].healthy
    /\ DOMAIN localhost_services # {}

ScanningTasks == { t \in Tasks : pc[t] \in {"scan_port", "scan_store"} }
FreshRecord(r) ==
    /\ r.is_grpc
    /\ r.services = << >>
    /\ r.metadata.health_status = "Healthy"
    /\ r.metadata.response_time_ms = None

\* C8: a scanned port is recorded iff its TCP probe, channel connect and
\* reflection call all succeeded; every record a scan writes is is_grpc,
\* Healthy, without services or latency; the scan returns success=true.
C8_RecordedIffHandshake ==
    /\ \A t \in ScanningTasks :
          /\ TraceDone(loc[t]) =>
                (endpoint_key("localhost", COMMON_GRPC_PORTS[loc[t].idx - 1])
                        \in DOMAIN loc[t].discovered_services
                    <=> loc[t].trace = << "ok", "ok", "ok" >>)
          /\ \A k \in DOMAIN loc[t].discovered_services :
                FreshRecord(loc[t].discovered_services[k])
    /\ Returned("scan_localhost_services") =>
          /\ out.resp.success
          /\ \A k \in DOMAIN localhost_services : FreshRecord(localhost_services[k])

\* C8 witness: the first port is a gRPC service, the second an open port
\* whose channel connect fails.
C8_Witness ==
    \E t \in Tasks :
        /\ pc[t] = "scan_store"
        /\ loc[t].trace = << "ok", "err" >>
        /\ DOMAIN loc[t].discovered_services = {"localhost:8001"}

StripTimes(registry) ==
    [k \in DOMAIN registry |->
        [registry[k] EXCEPT !.metadata.discovered_at = 0,
                            !.metadata.last_health_check = 0]]

\* C9: a scan that directly follows a scan, with the same ports detected
\* and no other command meanwhile, leaves the registry as it was but for
\* the two timestamps.
C9_ScanIdempotent ==
    (/\ Returned("scan_localhost_services") /\ out.alone
     /\ out.prevScan # None
     /\ out.prevScan[1] = DetectedPorts(out.resp.data[1].scan_results)) =>
        StripTimes(localhost_services) = StripTimes(out.pre[1].localhost_services)

\* C9 witness: two such scans that detect a port, a second apart.
C9_Witness ==
    /\ Returned("scan_localhost_services") /\ out.alone
    /\ out.prevScan # None
    /\ out.prevScan[1] = DetectedPorts(out.resp.data[1].scan_results)
    /\ DOMAIN localhost_services # {}
    /\ localhost_services # out.pre[1].localhost_services

\* C10: a health check of an endpoint that is not a registry key runs the
\* probe, returns healthy and response_time_ms, and leaves the registry as
\* it was.
C10_HealthCheckUnknownNoInsert ==
    (Returned("health_check_service") /\ OutKey \notin DOMAIN out.before.localhost_services) =>
        /\ localhost_services = out.before.localhost_services
        /\ (out.alone => localhost_services = out.pre[1].localhost_services)
        /\ scan_port_returned(out.args.host, out.args.port, out.loc.trace)
        /\ out.resp.data # None
        /\ out.resp.data[1].healthy = (out.loc.trace = << "ok", "ok", "ok" >>)
        /\ out.resp.data[1].response_time_ms = out.loc.response_time
        /\ out.loc.response_time \in { elapsed(out.loc.trace, l) : l \in Latencies }

\* C10 witness: the endpoint is another host's, on a port the registry
\* holds for localhost, and answers as a gRPC service.
C10_Witness ==
    /\ Returned("health_check_service")
    /\ OutKey \notin DOMAIN out.before.localhost_services
    /\ out.args.host # "localhost"
    /\ \E k \in DOMAIN localhost_services : localhost_services[k].port = out.args.port
    /\ out.resp.data[1].healthy

\* C11: a health check of an endpoint that is a registry key changes only
\* that record's last_health_check, health_status and response_time_ms:
\* the status is Healthy exactly when the probe and classification returned
\* true, the latency is present, and the rest of the record, every other
\* record and the key set are as before.
C11_HealthCheckUpdatesInPlace ==
    (Returned("health_check_service") /\ OutKey \in DOMAIN out.before.localhost_services) =>
        LET old == out.before.localhost_services
            healthy == (out.loc.trace = << "ok", "ok", "ok" >>)
        IN /\ DOMAIN localhost_services = DOMAIN old
           /\ \A k \in DOMAIN old \ {OutKey} : localhost_services[k] = old[k]
           /\ localhost_services[OutKey] =
                 [old[OutKey] EXCEPT
                    !.metadata.last_health_check =
                        localhost_services[OutKey].metadata.last_health_check,
                    !.metadata.health_status =
                        IF healthy THEN "Healthy" ELSE "Unhealthy",
                    !.metadata.response_time_ms =
                        Some(out.resp.data[1].response_time_ms)]
           /\ localhost_services[OutKey].metadata.last_health_check = clock
           /\ out.resp.data[1].healthy = healthy
           /\ out.resp.data[1].response_time_ms = out.loc.response_time
           /\ out.loc.response_time \in { elapsed(out.loc.trace, l) : l \in Latencies }

\* C11 witness: the probe of a registered endpoint is cut by a deadline a
\* second after the scan that found it, and the registry holds another
\* record.
C11_Witness ==
    /\ Returned("health_check_service")
    /\ OutKey \in DOMAIN out.before.localhost_services
    /\ OutKey \in DOMAIN localhost_services
    /\ ~out.resp.data[1].healthy
    /\ out.loc.trace[Len(out.loc.trace)] = "timeout"
    /\ localhost_services[OutKey].metadata.response_time_ms[1] >= Deadlines[1]
    /\ localhost_services[OutKey].metadata.health_status = "Unhealthy"
    /\ localhost_services[OutKey].metadata.discovered_at < clock
    /\ Cardinality(DOMAIN localhost_services) >= 2

\* C12 as claimed: the last_health_check stored for an endpoint never
\* decreases while the endpoint stays in the registry, whichever scan or
\* health check writes it (only returning steps write the registry).
C12_LastHealthCheckMonotone ==
    (out.cmd # "none") =>
        \A k \in DOMAIN out.before.localhost_services \cap DOMAIN localhost_services :
            localhost_services[k].metadata.last_health_check
                >= out.before.localhost_services[k].metadata.last_health_check

AllIdle == \A t \in Tasks : Idle(t)
ListResponded(l) == "list_response" \in DOMAIN l /\ l.list_response # None
StreamEndedUnanswered(l) == "list_response" \in DOMAIN l /\ l.list_response = None

\* C13: a discover_services that received a ListServicesResponse naming
\* n1..nk leaves as the active list exactly k services named n1..nk in
\* that order, nothing of the previous list, each with the ActiveConnection's
\* host and port when no other command ran; no message is read after the
\* response; and in every state every listed service has no methods.
C13_DiscoverReplacesList ==
    /\ (Returned("discover_services") /\ ListResponded(out.loc)) =>
          LET names == out.loc.list_response[1]
          IN /\ out.resp.success
             /\ out.resp.data = Some(services)
             /\ Len(services) = Len(names)
             /\ \A i \in 1 .. Len(names) :
                   /\ services[i].name = names[i]
                   /\ out.alone =>
                         /\ services[i].metadata.host = connection.host
                         /\ services[i].metadata.port = connection.port
    /\ \A t \in Tasks :
          pc[t] = "discover_stream" => (loc[t].list_response = None /\ loc[t].services = << >>)
    /\ \A i \in 1 .. Len(services) : services[i].methods = << >>

\* C13 witness: a discovery that skipped a message of another kind and then
\* received two names, while the previous list held one service.
C13_Witness ==
    /\ Returned("discover_services") /\ ListResponded(out.loc) /\ out.alone
    /\ out.loc.skipped
    /\ Len(out.loc.list_response[1]) = 2
    /\ Len(out.before.services) = 1
    /\ connection.port # GrpcConnection_default.port

\* C14 as claimed: whenever no command is running, every service of the
\* list get_services returns carries the host and port that
\* get_connection_status reports.
C14_ServicesOfActiveConnection ==
    AllIdle =>
        \A i \in 1 .. Len(services) :
            /\ services[i].metadata.host = connection.host
            /\ services[i].metadata.port = connection.port

\* C15 as claimed: a discover_services whose reflection stream errored or
\* ended before any ListServicesResponse returns success=false with a
\* message and leaves the active service list as it was.
C15_StreamFailureIsError ==
    (Returned("discover_services") /\ StreamEndedUnanswered(out.loc)) =>
        /\ ~out.resp.success
        /\ out.resp.message # ""
        /\ services = out.before.services

\* C16: no step of connect_grpc, discover_services or disconnect_grpc
\* changes the registry (it changes only in the returning step of a scan or
\* of a health check), and no registry record ever gets a service list.
C16_RegistryIndependent ==
    [][/\ localhost_services' # localhost_services =>
             out'.cmd \in {"scan_localhost_services", "health_check_service"}
       /\ \A k \in DOMAIN localhost_services' : localhost_services'[k].services = << >>]_vars

\* C16 witness: a discovery returns a non-empty list while the registry
\* holds the record of the active connection's endpoint.
C16_Witness ==
    /\ Returned("discover_services") /\ out.resp.success
    /\ services # << >>
    /\ endpoint_key(connection.host, connection.port) \in DOMAIN localhost_services

NetworkWaits == {"connect_await", "scan_port", "health_port", "discover_open", "discover_stream"}
Holds(t) == { l \in LockNames : lock[l] = t }

\* C17: a task suspended on a network operation (TCP probe, channel
\* connect, opening the reflection call, reading a stream message) holds
\* none of the five locks.
C17_NoLockAcrossNetworkWait ==
    \A t \in Tasks : pc[t] \in NetworkWaits => Holds(t) = {}

\* C17 witness: a discovery waits for a stream message while another task
\* holds the connection lock.
C17_Witness ==
    \E t, u \in Tasks :
        /\ pc[t] = "discover_stream"
        /\ u # t
        /\ lock["connection"] = u

\* C20 as claimed: whenever no command is running, connected = false
\* implies that the active service list is empty.
C20_DisconnectedImpliesNoServices ==
    (AllIdle /\ ~connection.connected) => services = << >>

WaitsDone(l) == IF TraceDone(l) THEN 0 ELSE Len(l.trace)

\* C18: a scan goes through the candidate ports in list order, one wait at
\* a time and at most one probe, one channel connect and one reflection
\* call per port; a wait that hits its deadline ends the port as "not
\* gRPC"; and under fair scheduling every scan stores its snapshot and
\* returns.
C18_ScanTerminates ==
    /\ [][\A t \in Tasks :
             (pc[t] = "scan_port" /\ pc'[t] # "idle" /\ loc'[t] # loc[t]) =>
                \/ /\ loc'[t].idx = loc[t].idx
                   /\ pc'[t] = "scan_port"
                   /\ ~TraceDone(loc'[t])
                   /\ Len(loc'[t].trace) = WaitsDone(loc[t]) + 1
                \/ /\ loc'[t].idx = loc[t].idx + 1
                   /\ TraceDone(loc'[t])
                   /\ Len(loc'[t].trace) = WaitsDone(loc[t]) + 1
                   /\ pc'[t] = IF loc'[t].idx > Len(COMMON_GRPC_PORTS) THEN "scan_store" ELSE "scan_port"]_vars
    /\ [](\A t \in Tasks :
             /\ pc[t] = "scan_port" => loc[t].idx \in 1 .. Len(COMMON_GRPC_PORTS)
             /\ pc[t] = "scan_store" => loc[t].idx = Len(COMMON_GRPC_PORTS) + 1
             /\ (pc[t] \in {"scan_port", "scan_store"} /\ loc[t].trace # << >>
                    /\ loc[t].trace[Len(loc[t].trace)] = "timeout") =>
                   /\ TraceDone(loc[t])
                   /\ endpoint_key("localhost", COMMON_GRPC_PORTS[loc[t].idx - 1])
                          \notin DOMAIN loc[t].discovered_services)
    /\ \A t \in Tasks : (pc[t] \in {"scan_port", "scan_store"}) ~>
                          (Returned("scan_localhost_services") /\ out.task = t)

\* C18 witness: a scan is about to store after its last port's reflection
\* call hit the deadline, while another task is scanning too.
C18_Witness ==
    \E t, u \in Tasks :
        /\ pc[t] = "scan_store"
        /\ loc[t].trace = << "ok", "ok", "timeout" >>
        /\ u # t
        /\ pc[u] = "scan_port"

\* The lock a task is about to request, if its next step is a lock request.
Wants(t) ==
    CASE pc[t] = "connect_pool" -> Some("connection_pool")
      [] pc[t] = "connect_connection" -> Some("connection")
      [] pc[t] = "disconnect_connection" -> Some("connection")
      [] pc[t] = "disconnect_services" -> Some("services")
      [] pc[t] = "disconnect_pool" -> Some("connection_pool")
      [] pc[t] = "discover_push" -> Some("connection")
      [] pc[t] = "discover_store" -> Some("services")
      [] pc[t] = "scan_store" -> Some("localhost_services")
      [] pc[t] = "health_store" -> Some("localhost_services")
      [] OTHER -> None
Blocked(t) == Wants(t) # None /\ lock[Wants(t)[1]] \notin {NoTask, t}

\* C19: no set of tasks is ever in a circular wait; a task holds a lock
\* while it requests another only in disconnect_grpc (connection, then
\* services, then pool); no task requests the connection lock while it
\* holds a lock; and under fair scheduling every task that requests a lock
\* gets it and runs to its return.
C19_DeadlockFree ==
    /\ [](/\ ~ \E S \in SUBSET Tasks \ {{}} :
                \A t \in S : Blocked(t) /\ lock[Wants(t)[1]] \in S
          /\ \A t \in Tasks :
                /\ (Holds(t) # {} /\ Wants(t) # None) =>
                      /\ Holds(t) = {"connection"}
                      /\ pc[t] \in {"disconnect_services", "disconnect_pool"}
                /\ Wants(t) = Some("connection") => Holds(t) = {}
                /\ Idle(t) => Holds(t) = {})
    /\ \A t \in Tasks : (Wants(t) # None) ~> Idle(t)

\* C19 witness: a task is blocked on the connection lock that a
\* disconnect_grpc holds while it requests the services lock.
C19_Witness ==
    \E t, u \in Tasks :
        /\ Blocked(t)
        /\ lock[Wants(t)[1]] = u
        /\ Wants(u) = Some("services")
        /\ Holds(u) = {"connection"}

\* C21: a discover_services called while the client slot is empty returns
\* success=false "Not connected to gRPC server" without data in the step
\* that invoked it (it never reaches a network wait: only a discovery that
\* cloned a client does) and leaves the five state slots as they were; a
\* discover_services whose reflection call fails to open returns
\* success=false with a message and leaves the active service list as it
\* was.
C21_DiscoverFailuresLeaveState ==
    /\ (Returned("discover_services") /\ out.loc = NoLoc) =>
          /\ out.before.client = None
          /\ ~out.resp.success
          /\ out.resp.message = "Not connected to gRPC server"
          /\ out.resp.data = None
          /\ Snapshot = out.before
    /\ (Returned("discover_services") /\ out.loc # NoLoc) =>
          "client" \in DOMAIN out.loc
    /\ \A t \in Tasks :
          pc[t] \in {"discover_open", "discover_stream", "discover_push", "discover_store"} =>
             "client" \in DOMAIN loc[t]
    /\ (Returned("discover_services") /\ DOMAIN out.loc = {"client"}) =>
          /\ ~out.resp.success
          /\ out.resp.message # ""
          /\ out.resp.data = None
          /\ services = out.before.services
          /\ (out.alone => Snapshot = out.pre[1])

\* C21 witness: a discover_services after a disconnect from an endpoint
\* that is not the default one.
C21_Witness ==
    /\ Returned("discover_services") /\ out.loc = NoLoc
    /\ client = None
    /\ ~connection.connected
    /\ connection.port # GrpcConnection_default.port

====
